---- MODULE Spec2Model ----
(***************************************************************************)
(* Model of the CheXaid configuration resolver (args/base_arg_parser.py)   *)
(* and of the evaluation run (test.py).                                    *)
(*                                                                         *)
(* Python strings that the code splits, joins or searches are sequences of *)
(* tokens ("." is a token of its own), so that str.split, `in` and `+`     *)
(* are computed.  Python dictionaries and Namespaces are functions.        *)
(***************************************************************************)
EXTENDS Integers, Sequences, FiniteSets, TLC

VARIABLES tm,        \* one call of are_tasks_missing: its arguments and its result
          nsp,       \* one call of fix_nested_namespaces and the re-flattening of its result
          wr,        \* one call of write_results: its arguments and its outcome
          pc,        \* the position of the run (process_args, then test)
          is_training, \* BaseArgParser.is_training (set by the subclass constructor)
          args,      \* the argument Namespace being resolved, then used by test()
          disk,      \* the files the run reads and writes (sidecars, audit file, results)
          argv,      \* the Namespace as argparse returned it (the command line), never changed
          err,       \* the exception that ended the run, "none" while there is none
          run        \* the local variables of test(): model, ckpt_info, metrics, ...

vars == <<tm, nsp, wr, pc, is_training, args, disk, argv, err, run>>

-----------------------------------------------------------------------------
(* Generic helpers for functions used as dictionaries.                     *)

SeqToSet(s) == {s[i] : i \in 1..Len(s)}

EmptyDict == <<>>

\* dict with key k bound to v (insert or overwrite), as d[k] = v / setattr
DictSet(d, k, v) == [x \in (DOMAIN d) \cup {k} |-> IF x = k THEN v ELSE d[x]]

\* dict without key k, as del d[k]
DictDel(d, k) == [x \in (DOMAIN d) \ {k} |-> d[x]]

\* The subsets of S with at most n elements.
RECURSIVE SubsetsUpTo(_, _)
SubsetsUpTo(S, n) ==
    IF n = 0 THEN {{}}
    ELSE LET smaller == SubsetsUpTo(S, n - 1) IN smaller \cup {p \cup {x} : p \in smaller, x \in S}

\* `for key in over: setattr(base, key, over[key])`
Overlay(base, over) ==
    [x \in (DOMAIN base) \cup (DOMAIN over) |-> IF x \in DOMAIN over THEN over[x] ELSE base[x]]

-----------------------------------------------------------------------------
(* dataset.TASK_SEQUENCES: name -> ordered label list.  The dataset module  *)
(* is not among the sources; the names are the --task_sequence choices and *)
(* the label lists are small stand-ins without duplicates.                 *)

TASK_SEQUENCES ==
    [stanford     |-> <<"NoFinding", "Edema", "Atelectasis", "Pneumonia">>,
     competition  |-> <<"Edema", "Atelectasis">>,
     nih          |-> <<"Pneumonia", "Hernia">>,
     su_nih_union |-> <<"NoFinding", "Edema", "Atelectasis", "Pneumonia", "Hernia">>,
     single_edema |-> <<"Edema">>,
     tcga         |-> <<"Tumor">>,
     pocus        |-> <<"TB">>,
     hocus        |-> <<"TB">>,
     pulm         |-> <<"TB", "Pneumonia">>]

\* set(a).issubset(set(b))
IsSubset(a, b) == SeqToSet(a) \subseteq SeqToSet(b)

-----------------------------------------------------------------------------
(* are_tasks_missing.  A train fraction is a percentage; FracNone is the   *)
(* default None, FracOne is the value that compares equal to 1.            *)

FracNone == -1
FracOne == 100

AreTasksMissing_TcgaPocusSwapped(task_sequence, eval_su, eval_nih, eval_pocus, eval_hocus, eval_pulm, eval_tcga, su_train_frac, nih_train_frac, pocus_train_frac, hocus_train_frac, pulm_train_frac, tcga_train_frac) ==
    LET target == TASK_SEQUENCES[task_sequence] IN
    IF (eval_su \/ su_train_frac = FracOne) /\ ~IsSubset(target, TASK_SEQUENCES["stanford"])
      THEN TRUE
    ELSE IF (eval_nih \/ nih_train_frac = FracOne) /\ ~IsSubset(target, TASK_SEQUENCES["nih"])
      THEN TRUE
    ELSE IF (eval_pocus \/ tcga_train_frac = FracOne) /\ ~IsSubset(target, TASK_SEQUENCES["tcga"])
      THEN TRUE
    ELSE IF (eval_tcga \/ pocus_train_frac = FracOne) /\ ~IsSubset(target, TASK_SEQUENCES["pocus"])
      THEN TRUE
    ELSE IF (eval_hocus \/ hocus_train_frac = FracOne) /\ ~IsSubset(target, TASK_SEQUENCES["hocus"])
      THEN TRUE
    ELSE IF (eval_pulm \/ pulm_train_frac = FracOne) /\ ~IsSubset(target, TASK_SEQUENCES["pulm"])
      THEN TRUE
    ELSE FALSE

\* The parameters are in the order of the Python signature.
AreTasksMissing(task_sequence, eval_su, eval_nih, eval_pocus, eval_hocus, eval_pulm, eval_tcga, su_train_frac, nih_train_frac, pocus_train_frac, hocus_train_frac, pulm_train_frac, tcga_train_frac) ==
    LET target == TASK_SEQUENCES[task_sequence] IN
    IF (eval_su \/ su_train_frac = FracOne) /\ ~IsSubset(target, TASK_SEQUENCES["stanford"])
      THEN TRUE
    ELSE IF (eval_nih \/ nih_train_frac = FracOne) /\ ~IsSubset(target, TASK_SEQUENCES["nih"])
      THEN TRUE
    ELSE IF (eval_tcga \/ tcga_train_frac = FracOne) /\ ~IsSubset(target, TASK_SEQUENCES["tcga"])
      THEN TRUE
    ELSE IF (eval_pocus \/ pocus_train_frac = FracOne) /\ ~IsSubset(target, TASK_SEQUENCES["pocus"])
      THEN TRUE
    ELSE IF (eval_hocus \/ hocus_train_frac = FracOne) /\ ~IsSubset(target, TASK_SEQUENCES["hocus"])
      THEN TRUE
    ELSE IF (eval_pulm \/ pulm_train_frac = FracOne) /\ ~IsSubset(target, TASK_SEQUENCES["pulm"])
      THEN TRUE
    ELSE FALSE

\* The six datasets, and the inputs a call is checked on.
Datasets == {"stanford", "nih", "tcga", "pocus", "hocus", "pulm"}
TaskTargets == {"su_nih_union", "nih", "competition", "pocus"}
TrainFracs == {FracNone, 50, FracOne}

TmIdle == [called |-> FALSE]

\* One call: the flags and fractions are keyed by dataset and passed by position.
CallAreTasksMissing ==
    /\ tm = TmIdle
    /\ \E t \in TaskTargets, ev \in [Datasets -> BOOLEAN], fr \in [Datasets -> TrainFracs] :
         tm' = [called |-> TRUE, task_sequence |-> t, eval |-> ev, train_frac |-> fr,
                result |-> AreTasksMissing(t, ev["stanford"], ev["nih"], ev["pocus"],
                                           ev["hocus"], ev["pulm"], ev["tcga"],
                                           fr["stanford"], fr["nih"], fr["pocus"],
                                           fr["hocus"], fr["pulm"], fr["tcga"])]
    /\ UNCHANGED <<nsp, wr, pc, is_training, args, disk, argv, err, run>>

-----------------------------------------------------------------------------
(* Strings as token sequences.                                             *)

Dot == "."

\* '.' in key
HasDot(key) == \E i \in 1..Len(key) : key[i] = Dot

FirstDot(key) == CHOOSE i \in 1..Len(key) : key[i] = Dot /\ \A j \in 1..(i-1) : key[j] # Dot

\* key.split('.'): the list of the segments between the separators
RECURSIVE Split(_)
Split(key) ==
    IF ~HasDot(key) THEN <<key>>
    ELSE <<SubSeq(key, 1, FirstDot(key) - 1)>> \o Split(SubSeq(key, FirstDot(key) + 1, Len(key)))

\* group + '.' + name
Join(group, name) == group \o <<Dot>> \o name

-----------------------------------------------------------------------------
(* argparse.Namespace.  A Namespace is [d, ns]: d holds the attributes     *)
(* whose value is no Namespace, ns the attributes whose value is a         *)
(* Namespace (one level: a nested Namespace is a plain dictionary).        *)

Namespace(d, ns) == [d |-> d, ns |-> ns]

DottedKeys(a) == {k \in DOMAIN a.d : HasDot(k)}

\* The bug of forgetting `del args.__dict__[key]`.
FixNestedNamespaces_KeepFlatKey(a) ==
    LET dotted == DottedKeys(a)
        groups == {Split(k)[1] : k \in dotted}
    IN  IF \E k \in dotted : Len(Split(k)) # 2 THEN [err |-> "ValueError", args |-> a]
        ELSE IF \E g \in groups : g \in DOMAIN a.d THEN [err |-> "AttributeError", args |-> a]
        ELSE [err |-> "none",
              args |-> Namespace(
                  a.d,
                  [g \in groups \cup DOMAIN a.ns |->
                      Overlay(IF g \in DOMAIN a.ns THEN a.ns[g] ELSE EmptyDict,
                              [n \in {Split(k)[2] : k \in {x \in dotted : Split(x)[1] = g}}
                                  |-> a.d[Join(g, n)]])])]

\* fix_nested_namespaces(args): the outcome and the Namespace it leaves.
\* The first loop unpacks key.split('.') into (group, name) for every dotted
\* key before anything is changed: a key with two separators raises
\* ValueError.  The second loop creates the group when no attribute of that
\* name exists, stores the value under it and deletes the flat key; when an
\* attribute of the group's name exists and is no Namespace, reading its
\* __dict__ raises AttributeError.
FixNestedNamespaces(a) ==
    LET dotted == DottedKeys(a)
        groups == {Split(k)[1] : k \in dotted}
    IN  IF \E k \in dotted : Len(Split(k)) # 2 THEN [err |-> "ValueError", args |-> a]
        ELSE IF \E g \in groups : g \in DOMAIN a.d THEN [err |-> "AttributeError", args |-> a]
        ELSE [err |-> "none",
              args |-> Namespace(
                  [k \in (DOMAIN a.d) \ dotted |-> a.d[k]],
                  [g \in groups \cup DOMAIN a.ns |->
                      Overlay(IF g \in DOMAIN a.ns THEN a.ns[g] ELSE EmptyDict,
                              [n \in {Split(k)[2] : k \in {x \in dotted : Split(x)[1] = g}}
                                  |-> a.d[Join(g, n)]])])]

\* namespace_to_dict(args): a deep copy with every Namespace turned into a
\* dictionary; the keys and the values are those of the Namespace.
NamespaceToDict(a) == [d |-> [k \in DOMAIN a.d |-> a.d[k]],
                       ns |-> [g \in DOMAIN a.ns |-> [n \in DOMAIN a.ns[g] |-> a.ns[g][n]]]]

\* Re-flattening a nested dictionary: every group field back to "group.field".
GroupFields(dict) == UNION {{<<g, n>> : n \in DOMAIN dict.ns[g]} : g \in DOMAIN dict.ns}

Flatten(dict) ==
    LET gf == GroupFields(dict)
        joined == {Join(p[1], p[2]) : p \in gf}
    IN  [k \in (DOMAIN dict.d) \cup joined |->
            IF k \in joined
            THEN LET p == CHOOSE q \in gf : Join(q[1], q[2]) = k IN dict.ns[p[1]][p[2]]
            ELSE dict.d[k]]

\* Bounds of the raw argument sets fix_nested_namespaces is checked on.
MaxKeyLen == 3
MaxArgs == 2
KeyChars == {"g", Dot}
ArgValues == {0, 1}

Keys == UNION {[1..n -> KeyChars] : n \in 1..MaxKeyLen}
KeySets == SubsetsUpTo(Keys, MaxArgs)
RawArgSets == UNION {[ks -> ArgValues] : ks \in KeySets}

NspIdle == [pc |-> "off"]

\* args = the parsed flat Namespace; fix_nested_namespaces(args)
Unflatten ==
    /\ nsp.pc = "raw"
    /\ LET r == FixNestedNamespaces(Namespace(nsp.raw, EmptyDict)) IN
         nsp' = [nsp EXCEPT !.pc = IF r.err = "none" THEN "nested" ELSE "failed",
                            !.err = r.err, !.args = r.args]
    /\ UNCHANGED <<tm, wr, pc, is_training, args, disk, argv, err, run>>

\* namespace_to_dict(args), then each group field back to "group.field"
Reflatten ==
    /\ nsp.pc = "nested"
    /\ nsp' = [nsp EXCEPT !.pc = "flat", !.flat = Flatten(NamespaceToDict(nsp.args))]
    /\ UNCHANGED <<tm, wr, pc, is_training, args, disk, argv, err, run>>

-----------------------------------------------------------------------------
(* write_results.  A column name and a metrics key are token sequences;    *)
(* a task and a metric are one token each.                                 *)

NAN == -1

\* eval_metrics of test()
EVAL_METRICS == <<"AUPRC", "AUROC", "log_loss", "rads_below_ROC", "rads_below_PR", "accuracy">>

\* for metric in eval_metrics: for task in eval_tasks: cols.append(task + metric)
MetricCols(eval_metrics, eval_tasks) ==
    [i \in 1..(Len(eval_metrics) * Len(eval_tasks)) |->
        <<eval_tasks[((i - 1) % Len(eval_tasks)) + 1],
          eval_metrics[((i - 1) \div Len(eval_tasks)) + 1]>>]

\* f'{split}_loss' and 'weighted_loss'
SplitLossCol(split) == split \o <<"_", "loss">>
WeightedLossCol == <<"weighted_loss">>

\* dataset_name + f'-{split}_' + suffix
MetricKey(dataset_name, split, suffix) == dataset_name \o <<"-">> \o split \o <<"_">> \o suffix

\* row[col] = metrics[key] if key in metrics else NAN
CellValue(metrics, key) == IF key \in DOMAIN metrics THEN metrics[key] ELSE NAN

\* The bug of enumerating the columns task-major.
ResultCols_TaskMajor(split, eval_metrics, eval_tasks) ==
    <<<<"name">>, <<"dataset">>, <<"epoch">>, SplitLossCol(split), WeightedLossCol>>
        \o [i \in 1..(Len(eval_metrics) * Len(eval_tasks)) |->
              <<eval_tasks[((i - 1) \div Len(eval_metrics)) + 1],
                eval_metrics[((i - 1) % Len(eval_metrics)) + 1]>>]

\* The columns of the row in the order the row dictionary receives them:
\* the five of its literal, then cols[3:].
ResultCols(split, eval_metrics, eval_tasks) ==
    <<<<"name">>, <<"dataset">>, <<"epoch">>, SplitLossCol(split), WeightedLossCol>>
        \o MetricCols(eval_metrics, eval_tasks)

\* write_results: KeyError when one of the two loss keys is not in metrics
\* (the row literal indexes metrics directly); otherwise the row, with its
\* columns in order, is written to output_path.
WriteResults(dataset_name, split, eval_metrics, metrics, name, ckpt_info, evaluate_task_sequence) ==
    LET eval_tasks == TASK_SEQUENCES[evaluate_task_sequence]
        cols == ResultCols(split, eval_metrics, eval_tasks)
        lossKey == MetricKey(dataset_name, split, <<"loss">>)
        wlossKey == MetricKey(dataset_name, split, <<"weighted_loss">>)
    IN  IF lossKey \notin DOMAIN metrics \/ wlossKey \notin DOMAIN metrics
        THEN [err |-> "KeyError", cols |-> <<>>, row |-> EmptyDict]
        ELSE [err |-> "none",
              cols |-> cols,
              row |-> [c \in SeqToSet(cols) |->
                        IF c = <<"name">> THEN name
                        ELSE IF c = <<"dataset">> THEN dataset_name
                        ELSE IF c = <<"epoch">> THEN ckpt_info.epoch
                        ELSE IF c = SplitLossCol(split) THEN metrics[lossKey]
                        ELSE IF c = WeightedLossCol THEN metrics[wlossKey]
                        ELSE CellValue(metrics, MetricKey(dataset_name, split, c))]]

\* Bounds and inputs of the calls write_results is checked on.
MaxMetricKeys == 2
MetricValues == {0, 7}
WrDatasets == {<<"stanford">>, <<"nih">>}
WrSplits == {<<"valid">>, <<"test">>}
WrTaskSequences == {"competition", "nih"}

\* The metrics keys of a dataset and split that write_results may look up,
\* and one key of another split.
LossKeys(ds, split) == {MetricKey(ds, split, <<"loss">>), MetricKey(ds, split, <<"weighted_loss">>)}
GenericKeys(ds, split, ts) ==
    {MetricKey(ds, split, <<TASK_SEQUENCES[ts][j], EVAL_METRICS[i]>>) :
        i \in 1..Len(EVAL_METRICS), j \in 1..Len(TASK_SEQUENCES[ts])}
        \cup {MetricKey(ds, <<"train">>, <<"loss">>)}

\* The metrics tables an evaluation of (ds, split) on ts may return: any of
\* the loss keys and at most MaxMetricKeys of the other keys.
MetricsTables(ds, split, ts) ==
    UNION {[ks -> MetricValues] :
             ks \in {l \cup g : l \in SUBSET LossKeys(ds, split),
                               g \in SubsetsUpTo(GenericKeys(ds, split, ts), MaxMetricKeys)}}

CallWriteResults ==
    /\ wr.pc = "ready"
    /\ LET r == WriteResults(wr.dataset_name, wr.split, EVAL_METRICS, wr.metrics, wr.name,
                             wr.ckpt_info, wr.evaluate_task_sequence) IN
         wr' = [wr EXCEPT !.pc = IF r.err = "none" THEN "written" ELSE "failed",
                          !.err = r.err, !.cols = r.cols, !.row = r.row]
    /\ UNCHANGED <<tm, nsp, pc, is_training, args, disk, argv, err, run>>

-----------------------------------------------------------------------------
(* Values.  An optional value is None or Some(v); a path is a token        *)
(* sequence with "/" as a token; a metric name is a character sequence.    *)

None == [none |-> TRUE]
Some(v) == [none |-> FALSE, v |-> v]

\* bool(x) of an optional list: None and [] are false
ListTruthy(x) == ~x.none /\ Len(x.v) > 0

K(s) == <<s>>
MA == K("model_args")
TA == K("transform_args")
DA == K("data_args")
LA == K("logger_args")
FlatKey(group, name) == <<group, Dot, name>>

Slashes(path) == {i \in 1..Len(path) : path[i] = "/"}

\* os.path.dirname(path)
Dirname(path) ==
    IF Slashes(path) = {} THEN <<>>
    ELSE SubSeq(path, 1, (CHOOSE i \in Slashes(path) : \A j \in Slashes(path) : j <= i) - 1)

\* os.path.join(a, b) for a relative b
PathJoin(a, b) ==
    IF a = <<>> THEN b
    ELSE IF a[Len(a)] = "/" THEN a \o b
    ELSE a \o <<"/">> \o b

\* word in name
Contains(name, word) ==
    \E i \in 1..(Len(name) - Len(word) + 1) : SubSeq(name, i, i + Len(word) - 1) = word

W_loss == <<"l", "o", "s", "s">>
W_AUROC == <<"A", "U", "R", "O", "C">>
W_accuracy == <<"a", "c", "c", "u", "r", "a", "c", "y">>

-----------------------------------------------------------------------------
(* process_args, in the order of its statements.  Each operator returns    *)
(* the exception raised ("none" when none) and the Namespace it leaves.    *)

\* The flag and the train fraction of each dataset in data_args.
EvalFlag == [stanford |-> K("eval_su"), nih |-> K("eval_nih"), tcga |-> K("eval_tcga"),
             pocus |-> K("eval_pocus"), hocus |-> K("eval_hocus"), pulm |-> K("eval_pulm")]
TrainFrac == [stanford |-> K("su_train_frac"), nih |-> K("nih_train_frac"),
              tcga |-> K("tcga_train_frac"), pocus |-> K("pocus_train_frac"),
              hocus |-> K("hocus_train_frac"), pulm |-> K("pulm_train_frac")]

\* args.has_tasks_missing = self.are_tasks_missing(...): with the train
\* fractions in training mode, with their defaults otherwise.
HasTasksMissing(a, training) ==
    LET da == a.ns[DA] IN
    IF training
    THEN AreTasksMissing(da[K("task_sequence")], da[K("eval_su")], da[K("eval_nih")],
                         da[K("eval_pocus")], da[K("eval_hocus")], da[K("eval_pulm")],
                         da[K("eval_tcga")], da[K("su_train_frac")], da[K("nih_train_frac")],
                         da[K("pocus_train_frac")], da[K("hocus_train_frac")],
                         da[K("pulm_train_frac")], da[K("tcga_train_frac")])
    ELSE AreTasksMissing(da[K("task_sequence")], da[K("eval_su")], da[K("eval_nih")],
                         da[K("eval_pocus")], da[K("eval_hocus")], da[K("eval_pulm")],
                         da[K("eval_tcga")], FracNone, FracNone, FracNone, FracNone,
                         FracNone, FracNone)

\* The bug of overlaying the whole model_args of the sidecar, its ckpt_path included.
OverlayModelArgs_KeepStoredPath(model_args, stored, ckpt_paths) ==
    DictSet(Overlay(model_args, stored), K("ckpt_paths"), Some(ckpt_paths))

\* del model_args['ckpt_path']; setattr for every remaining key;
\* args.model_args.ckpt_paths = ckpt_paths
OverlayModelArgs(model_args, stored, ckpt_paths) ==
    DictSet(Overlay(model_args, DictDel(stored, K("ckpt_path"))), K("ckpt_paths"), Some(ckpt_paths))

\* The else branch of process_args after has_tasks_missing: the sidecar of
\* the first checkpoint path is read and overlaid.  ckpt_path is bound only
\* when model_args.ckpt_path or model_args.ckpt_paths is truthy.  read is
\* the set of the files json.load was given.
MergeCheckpointArgs(a, files) ==
    LET ma == a.ns[MA]
        single == ma[K("ckpt_path")] # <<>>
        ckpt_path == IF single THEN ma[K("ckpt_path")] ELSE ma[K("ckpt_paths")].v[1]
        ckpt_paths == IF single THEN <<>> ELSE ma[K("ckpt_paths")].v
        ckpt_args == PathJoin(Dirname(ckpt_path), K("args.json"))
    IN  IF ~single /\ ~ListTruthy(ma[K("ckpt_paths")])
          THEN [err |-> "UnboundLocalError", args |-> a, read |-> {}]
        ELSE IF ckpt_args \notin DOMAIN files
          THEN [err |-> "FileNotFoundError", args |-> a, read |-> {}]
        ELSE LET file_args == files[ckpt_args] IN
          IF MA \notin DOMAIN file_args \/ K("ckpt_path") \notin DOMAIN file_args[MA]
            THEN [err |-> "KeyError", args |-> a, read |-> {ckpt_args}]
          ELSE LET a1 == [a EXCEPT !.ns[MA] = OverlayModelArgs(@, file_args[MA], ckpt_paths)] IN
            IF TA \notin DOMAIN file_args THEN [err |-> "KeyError", args |-> a1, read |-> {ckpt_args}]
            ELSE LET a2 == [a1 EXCEPT !.ns[TA] = Overlay(@, file_args[TA])] IN
              IF DA \notin DOMAIN file_args
                THEN [err |-> "KeyError", args |-> a2, read |-> {ckpt_args}]
              ELSE [err |-> "none", args |-> [a2 EXCEPT !.ns[DA] = Overlay(@, file_args[DA])],
                    read |-> {ckpt_args}]

\* process_args up to `args = argparse.Namespace(**dict_def)`
MergeArgs(a0, training, files) ==
    LET f == FixNestedNamespaces(a0) IN
    IF f.err # "none" THEN [err |-> f.err, args |-> f.args, read |-> {}]
    ELSE LET a1 == [f.args EXCEPT !.d = DictSet(@, K("has_tasks_missing"),
                                                 HasTasksMissing(f.args, training))] IN
      IF training THEN [err |-> "none", args |-> a1, read |-> {}]
      ELSE MergeCheckpointArgs(a1, files)

\* The bug of dumping args.json after logger_args.save_dir was reassigned.
PersistArgs_AfterSaveDir(a, date_string) ==
    LET dir_name == a.ns[LA][K("name")] \o <<"_">> \o date_string
        a1 == [a EXCEPT !.ns[LA] = DictSet(@, K("dir_name"), dir_name)]
        save_dir == PathJoin(a.ns[LA][K("save_dir")], dir_name)
        a2 == [a1 EXCEPT !.ns[LA] = DictSet(@, K("save_dir"), save_dir)]
    IN  [args |-> a2,
         path |-> PathJoin(save_dir, K("args.json")),
         content |-> NamespaceToDict(a2)]

\* The run directory is named, created, and receives args.json; then
\* logger_args.save_dir becomes the run directory.
PersistArgs(a, date_string) ==
    LET dir_name == a.ns[LA][K("name")] \o <<"_">> \o date_string
        a1 == [a EXCEPT !.ns[LA] = DictSet(@, K("dir_name"), dir_name)]
        save_dir == PathJoin(a.ns[LA][K("save_dir")], dir_name)
    IN  [args |-> [a1 EXCEPT !.ns[LA] = DictSet(@, K("save_dir"), save_dir)],
         path |-> PathJoin(save_dir, K("args.json")),
         content |-> NamespaceToDict(a1)]

\* The names are written character by character.
STANFORD_METRICS ==
    {<<"s","t","a","n","f","o","r","d","-","v","a","l","i","d","_","l","o","s","s">>,
     <<"s","t","a","n","f","o","r","d","-","t","r","a","i","n","-","d","e","v","_","l","o","s",
       "s">>,
     <<"s","t","a","n","f","o","r","d","-","v","a","l","i","d","_","5","l","o","s","s">>,
     <<"s","t","a","n","f","o","r","d","-","v","a","l","i","d","_","c","o","m","p","e","t","i",
       "t","i","o","n","_","a","v","g","_","A","U","R","O","C">>}
NIH_METRICS ==
    {<<"n","i","h","-","v","a","l","i","d","_","w","e","i","g","h","t","e","d","_","l","o","s",
       "s">>,
     <<"n","i","h","-","v","a","l","i","d","_","l","o","s","s">>}

\* The two asserts on the allowed names of the best-checkpoint metric.
MetricNameAllowed(da, metric_name) ==
    /\ (da[K("eval_su")] /\ ~da[K("eval_nih")]) => metric_name \in STANFORD_METRICS
    /\ (da[K("eval_nih")] /\ ~da[K("eval_su")]) => metric_name \in NIH_METRICS

\* The bug of asking a loss to be maximized.
MetricDirectionOK_LossMaximized(metric_name, maximize_metric) ==
    \/ Contains(metric_name, W_loss) /\ maximize_metric
    \/ Contains(metric_name, W_AUROC) /\ maximize_metric
    \/ Contains(metric_name, W_accuracy) /\ maximize_metric

\* The assert on the direction of the metric.
MetricDirectionOK(metric_name, maximize_metric) ==
    \/ Contains(metric_name, W_loss) /\ ~maximize_metric
    \/ Contains(metric_name, W_AUROC) /\ maximize_metric
    \/ Contains(metric_name, W_accuracy) /\ maximize_metric

\* is_training and start_epoch are attached, then the checks in order.
CheckArgs(a, training) ==
    LET a1 == [a EXCEPT !.d = DictSet(DictSet(@, K("is_training"), training), K("start_epoch"), 1)]
        ma == a1.ns[MA]
        la == a1.ns[LA]
    IN  IF /\ ~training
           /\ ~(ma[K("ckpt_path")] # <<>> \/ ListTruthy(ma[K("ckpt_paths")]))
           /\ ~(K("test_2d") \in DOMAIN a1.d /\ a1.d[K("test_2d")])
           /\ a1.d[K("config_path")].none
          THEN [err |-> "ValueError: Must specify --ckpt_path in test mode.", args |-> a1]
        ELSE IF training /\ la[K("iters_per_eval")] % a1.d[K("batch_size")] # 0
          THEN [err |-> "ValueError: iters_per_eval must be divisible by batch_size.", args |-> a1]
        ELSE IF training /\ la[K("iters_per_save")] % la[K("iters_per_eval")] # 0
          THEN [err |-> "ValueError: iters_per_save must be divisible by iters_per_eval.", args |-> a1]
        ELSE IF training /\ ~MetricNameAllowed(a1.ns[DA], la[K("metric_name")])
          THEN [err |-> "AssertionError: metric_name", args |-> a1]
        ELSE IF training /\ ~MetricDirectionOK(la[K("metric_name")], la[K("maximize_metric")])
          THEN [err |-> "AssertionError: metric direction", args |-> a1]
        ELSE [err |-> "none", args |-> a1]

\* The bug of falling back to Stanford when no flag is set.
DatasetNameOf_DefaultStanford(da) ==
    IF da[K("eval_su")] THEN Some(<<"stanford">>)
    ELSE IF da[K("eval_nih")] THEN Some(<<"nih">>)
    ELSE IF da[K("eval_tcga")] THEN Some(<<"tcga">>)
    ELSE IF da[K("eval_pocus")] THEN Some(<<"pocus">>)
    ELSE IF da[K("eval_hocus")] THEN Some(<<"hocus">>)
    ELSE IF da[K("eval_pulm")] THEN Some(<<"pulm">>)
    ELSE Some(<<"stanford">>)

\* The if/elif chain that chooses data_args.dataset_name.
DatasetNameOf(da) ==
    IF da[K("eval_su")] THEN Some(<<"stanford">>)
    ELSE IF da[K("eval_nih")] THEN Some(<<"nih">>)
    ELSE IF da[K("eval_tcga")] THEN Some(<<"tcga">>)
    ELSE IF da[K("eval_pocus")] THEN Some(<<"pocus">>)
    ELSE IF da[K("eval_hocus")] THEN Some(<<"hocus">>)
    ELSE IF da[K("eval_pulm")] THEN Some(<<"pulm">>)
    ELSE None

SetDatasetName(a) ==
    IF DatasetNameOf(a.ns[DA]).none
    THEN [err |-> "Exception: need to select a dataset to evaluate on", args |-> a]
    ELSE [err |-> "none",
          args |-> [a EXCEPT !.ns[DA] = DictSet(@, K("dataset_name"), DatasetNameOf(a.ns[DA]).v)]]

\* util.args_to_list: the ids between the commas
ArgsToList(gpu_ids) == SelectSeq(gpu_ids, LAMBDA t : t # ",")

\* gpu_ids and device; in test mode logger_args.results_dir gets the run's name.
SetDevice(a, training, cuda_available) ==
    LET ids == ArgsToList(a.d[K("gpu_ids")])
        a1 == [a EXCEPT !.d = DictSet(DictSet(@, K("gpu_ids"), ids), K("device"),
                                      IF Len(ids) > 0 /\ cuda_available THEN "cuda" ELSE "cpu")]
    IN  IF training THEN a1
        ELSE [a1 EXCEPT !.ns[LA] = DictSet(@, K("results_dir"),
                                           PathJoin(a.ns[LA][K("results_dir")], a.ns[LA][K("name")]))]

-----------------------------------------------------------------------------
(* The run: parse_args -> process_args, then test(args) in test mode.      *)

RunStart == [failed_at |-> "none", read |-> {}, loaders |-> {}, loads_ok |-> TRUE,
             model |-> "none", ckpt_info |-> None, metrics |-> None, wrote_results |-> FALSE,
             cams |-> FALSE]

Fail(e) ==
    /\ pc' = "failed"
    /\ err' = e
    /\ run' = [run EXCEPT !.failed_at = pc]

\* process_args: fix_nested_namespaces, has_tasks_missing, the sidecar merge
ProcessArgs_Merge ==
    /\ pc = "parsed"
    /\ LET r == MergeArgs(args, is_training, disk) IN
         /\ args' = r.args
         /\ IF r.err = "none"
            THEN pc' = "merged" /\ UNCHANGED err /\ run' = [run EXCEPT !.read = r.read]
            ELSE /\ pc' = "failed" /\ err' = r.err
                 /\ run' = [run EXCEPT !.failed_at = pc, !.read = r.read]
    /\ UNCHANGED <<tm, nsp, wr, is_training, disk, argv>>

\* The millisecond timestamp and the random suffix of the run directory.
DateStrings == {<<"1700000000000", "_", "A1B2C3">>}

\* process_args: the run directory and the audit file
ProcessArgs_Persist ==
    /\ pc = "merged"
    /\ \E date_string \in DateStrings :
         LET r == PersistArgs(args, date_string) IN
           /\ args' = r.args
           /\ disk' = DictSet(disk, r.path, r.content)
    /\ pc' = "persisted"
    /\ UNCHANGED <<tm, nsp, wr, is_training, argv, err, run>>

\* process_args: is_training, start_epoch and the checks
ProcessArgs_Check ==
    /\ pc = "persisted"
    /\ LET r == CheckArgs(args, is_training) IN
         /\ args' = r.args
         /\ IF r.err = "none" THEN pc' = "checked" /\ UNCHANGED <<err, run>> ELSE Fail(r.err)
    /\ UNCHANGED <<tm, nsp, wr, is_training, disk, argv>>

\* process_args: data_args.dataset_name
ProcessArgs_DatasetName ==
    /\ pc = "checked"
    /\ LET r == SetDatasetName(args) IN
         /\ args' = r.args
         /\ IF r.err = "none" THEN pc' = "named" /\ UNCHANGED <<err, run>> ELSE Fail(r.err)
    /\ UNCHANGED <<tm, nsp, wr, is_training, disk, argv>>

\* process_args: the device, the results directory, return args
ProcessArgs_Device ==
    /\ pc = "named"
    /\ \E cuda_available \in BOOLEAN : args' = SetDevice(args, is_training, cuda_available)
    /\ pc' = "resolved"
    /\ UNCHANGED <<tm, nsp, wr, is_training, disk, argv, err, run>>

\* The bug of testing config_path before use_csv_probs.
LoadPath_ConfigBeforeCsv(a) ==
    IF a.d[K("use_multi_model")] THEN "load_multi_model"
    ELSE IF ~a.d[K("config_path")].none THEN "EnsembleModel"
    ELSE IF a.ns[MA][K("use_csv_probs")] THEN "CSVReaderModel"
    ELSE IF ListTruthy(a.ns[MA][K("ckpt_paths")]) THEN "load_ensemble"
    ELSE "load_model"

\* test(): the if/elif chain that chooses the loader
LoadPath(a) ==
    IF a.d[K("use_multi_model")] THEN "load_multi_model"
    ELSE IF a.ns[MA][K("use_csv_probs")] THEN "CSVReaderModel"
    ELSE IF ~a.d[K("config_path")].none THEN "EnsembleModel"
    ELSE IF ListTruthy(a.ns[MA][K("ckpt_paths")]) THEN "load_ensemble"
    ELSE "load_model"

\* The epochs a checkpoint may carry.
Epochs == {1, 3}

\* The bug of writing the checkpoint's epoch to args.start_epoch while loading.
LoadModel_UpdatesStartEpoch(a, loads_ok, epoch) ==
    LET path == LoadPath(a)
        a0 == [a EXCEPT !.d = DictSet(@, K("start_epoch"), epoch)]
        a1 == IF path = "load_model" THEN [a0 EXCEPT !.ns[MA] = DictSet(@, K("pretrained"), FALSE)]
              ELSE a0
    IN  IF ~loads_ok
          THEN [err |-> "CheckpointLoadError", args |-> a1, loader |-> path,
                model |-> "none", ckpt_info |-> None]
        ELSE IF path = "load_multi_model"
          THEN [err |-> "NameError: name 'args' is not defined", args |-> a1, loader |-> path,
                model |-> "none", ckpt_info |-> None]
        ELSE [err |-> "none", args |-> a1, loader |-> path, model |-> path,
              ckpt_info |-> Some([epoch |-> IF path \in {"CSVReaderModel", "EnsembleModel"}
                                            THEN 0 ELSE epoch])]

\* The outcome of the chosen loader.  loads_ok: every call into ModelSaver,
\* CSVReaderModel, get_config or EnsembleModel succeeded; epoch: the epoch of
\* the checkpoint info ModelSaver returns.
\*  - load_multi_model loads the ap and the pa model, then evaluates
\*    args.gpu_ids for the lateral one: args is no name of its scope nor of
\*    the module, a NameError.  It returns the model alone, so test() binds
\*    no ckpt_info on this path.
\*  - CSVReaderModel and EnsembleModel: ckpt_info = {'epoch': 0}.
\*  - load_model: model_args.pretrained = False is set before the call.
LoadModel(a, loads_ok, epoch) ==
    LET path == LoadPath(a)
        a1 == IF path = "load_model" THEN [a EXCEPT !.ns[MA] = DictSet(@, K("pretrained"), FALSE)]
              ELSE a
    IN  IF ~loads_ok
          THEN [err |-> "CheckpointLoadError", args |-> a1, loader |-> path,
                model |-> "none", ckpt_info |-> None]
        ELSE IF path = "load_multi_model"
          THEN [err |-> "NameError: name 'args' is not defined", args |-> a1, loader |-> path,
                model |-> "none", ckpt_info |-> None]
        ELSE [err |-> "none", args |-> a1, loader |-> path, model |-> path,
              ckpt_info |-> Some([epoch |-> IF path \in {"CSVReaderModel", "EnsembleModel"}
                                            THEN 0 ELSE epoch])]

\* test(): # Get model
Test_LoadModel ==
    /\ pc = "resolved" /\ ~is_training
    /\ \E loads_ok \in BOOLEAN, epoch \in Epochs :
         LET r == LoadModel(args, loads_ok, epoch) IN
           /\ args' = r.args
           /\ IF r.err = "none"
              THEN /\ pc' = "loaded" /\ UNCHANGED err
                   /\ run' = [run EXCEPT !.loaders = @ \cup {r.loader}, !.loads_ok = loads_ok,
                                         !.model = r.model, !.ckpt_info = r.ckpt_info]
              ELSE /\ pc' = "failed" /\ err' = r.err
                   /\ run' = [run EXCEPT !.loaders = @ \cup {r.loader}, !.loads_ok = loads_ok,
                                         !.failed_at = pc]
    /\ UNCHANGED <<tm, nsp, wr, is_training, disk, argv>>

\* write_model_paths: the lines of models.txt
ModelPaths(ckpt_path, ckpt_paths) ==
    IF ckpt_path # <<>> THEN <<ckpt_path>>
    ELSE IF ListTruthy(ckpt_paths) THEN ckpt_paths.v
    ELSE <<>>

ResultsDir(a) == PathJoin(a.ns[LA][K("results_dir")], a.ns[DA][K("split")])

\* test(): model.to(device), model.eval(), the loaders, the results
\* directory and models.txt
Test_Prepare ==
    /\ pc = "loaded"
    /\ disk' = DictSet(disk, PathJoin(ResultsDir(args), K("models.txt")),
                       ModelPaths(args.ns[MA][K("ckpt_path")], args.ns[MA][K("ckpt_paths")]))
    /\ pc' = "ready"
    /\ UNCHANGED <<tm, nsp, wr, is_training, args, argv, err, run>>

\* if args.config_path is None and not model_args.ckpt_paths
MetricsComputed(a) == a.d[K("config_path")].none /\ ~ListTruthy(a.ns[MA][K("ckpt_paths")])

\* evaluate_task_sequence of test()
EvaluateTaskSequence(da) ==
    IF da[K("dataset_name")] = <<"stanford">> THEN "competition" ELSE da[K("task_sequence")]

\* The metrics tables the Evaluator returns in the run: none of the keys,
\* the two loss keys, and the two loss keys with one task metric.
RunMetricsTables(ds, split, ts) ==
    {EmptyDict,
     [k \in LossKeys(ds, split) |-> 7],
     [k \in LossKeys(ds, split) \cup {MetricKey(ds, split, <<TASK_SEQUENCES[ts][1], "AUROC">>)} |-> 0]}

\* test(): the Evaluator, unless the run is one of the unscored ones
Test_Evaluate ==
    /\ pc = "ready"
    /\ IF MetricsComputed(args)
       THEN \E m \in RunMetricsTables(args.ns[DA][K("dataset_name")], args.ns[DA][K("split")],
                                      EvaluateTaskSequence(args.ns[DA])) :
              run' = [run EXCEPT !.metrics = Some(m)]
       ELSE UNCHANGED run
    /\ pc' = "evaluated"
    /\ UNCHANGED <<tm, nsp, wr, is_training, args, disk, argv, err>>

\* test(): if logger_args.write_results: write_results(...) to scores.csv
Test_WriteResults ==
    /\ pc = "evaluated"
    /\ IF ~run.metrics.none /\ args.ns[LA][K("write_results")]
       THEN IF run.ckpt_info.none
            THEN Fail("UnboundLocalError") /\ UNCHANGED disk
            ELSE LET r == WriteResults(args.ns[DA][K("dataset_name")], args.ns[DA][K("split")],
                                       EVAL_METRICS, run.metrics.v, args.ns[LA][K("name")],
                                       run.ckpt_info.v, EvaluateTaskSequence(args.ns[DA])) IN
                   IF r.err = "none"
                   THEN /\ disk' = DictSet(disk, PathJoin(ResultsDir(args), K("scores.csv")),
                                           [cols |-> r.cols, row |-> r.row])
                        /\ run' = [run EXCEPT !.wrote_results = TRUE]
                        /\ pc' = "scored" /\ UNCHANGED err
                   ELSE Fail(r.err) /\ UNCHANGED disk
       ELSE pc' = "scored" /\ UNCHANGED <<disk, err, run>>
    /\ UNCHANGED <<tm, nsp, wr, is_training, args, argv>>

\* test(): if logger_args.save_cams: save_grad_cams(...); its import is
\* commented out, so the name is not defined.
Test_SaveCams ==
    /\ pc = "scored"
    /\ IF args.ns[LA][K("save_cams")]
       THEN Fail("NameError: name 'save_grad_cams' is not defined")
       ELSE pc' = "done" /\ UNCHANGED <<err, run>>
    /\ UNCHANGED <<tm, nsp, wr, is_training, args, disk, argv>>

-----------------------------------------------------------------------------
(* The command lines and the checkpoint directories the run is checked on. *)

\* The metric names a training run is checked on, character by character.
MetricNames ==
    {<<"s","t","a","n","f","o","r","d","-","v","a","l","i","d","_","l","o","s","s">>,
     <<"n","i","h","-","v","a","l","i","d","_","l","o","s","s">>,
     <<"s","t","a","n","f","o","r","d","-","v","a","l","i","d","_","c","o","m","p","e","t","i",
       "t","i","o","n","_","a","v","g","_","A","U","R","O","C">>,
     <<"p","u","l","m","-","v","a","l","i","d","_","a","c","c","u","r","a","c","y">>,
     <<"n","i","h","-","v","a","l","i","d","_","l","o","s","s","_","A","U","R","O","C">>,
     <<"p","u","l","m","-","v","a","l","i","d","_","A","U","P","R","C">>}

\* A dictionary under its group, as argparse names the dests: "group.name".
Flat(group, dict) == [k \in {FlatKey(group, n[1]) : n \in DOMAIN dict} |-> dict[<<k[3]>>]]

FlagDict(flags) ==
    [k \in {EvalFlag[d] : d \in Datasets} |-> (CHOOSE d \in Datasets : EvalFlag[d] = k) \in flags]
FracDict(fr) ==
    [k \in {TrainFrac[d] : d \in Datasets} |-> fr[CHOOSE d \in Datasets : TrainFrac[d] = k]]

PathA == <<"ckA", "/", "best.pth">>
PathB == <<"ckB", "/", "epoch_3.pth">>
PathOld == <<"old", "/", "run.pth">>
SidecarOf(path) == PathJoin(Dirname(path), K("args.json"))

\* args.json as a training run wrote it next to its checkpoints.
Sidecar(pretrained, ckpt_paths, task_sequence, flags) ==
    (MA :> (K("ckpt_path") :> PathOld @@ K("ckpt_paths") :> ckpt_paths
            @@ K("pretrained") :> pretrained))
    @@ (TA :> (K("crop") :> 224))
    @@ (DA :> ((K("task_sequence") :> task_sequence) @@ FlagDict(flags)
               @@ FracDict([d \in Datasets |-> FracNone])))

SidecarB == Sidecar(TRUE, None, "pulm", {"pulm"})

SidecarsA ==
    {Sidecar(FALSE, None, "nih", {"nih"}),
     Sidecar(TRUE, Some(<<PathOld>>), "competition", {"stanford", "pulm"}),
     Sidecar(FALSE, None, "nih", {}),
     \* a sidecar whose model_args has no ckpt_path
     (MA :> (K("pretrained") :> FALSE)) @@ (TA :> EmptyDict) @@ (DA :> EmptyDict),
     \* a sidecar without data_args
     (MA :> (K("ckpt_path") :> PathOld)) @@ (TA :> (K("crop") :> 224)),
     \* a sidecar with empty groups
     (MA :> (K("ckpt_path") :> PathOld)) @@ (TA :> EmptyDict) @@ (DA :> EmptyDict)}

Disks ==
    {(SidecarOf(PathB) :> SidecarB)}
      \cup {(SidecarOf(PathA) :> s) @@ (SidecarOf(PathB) :> SidecarB) : s \in SidecarsA}

\* (task_sequence, flags, split) of a test command line
TestDataChoices ==
    {<<"nih", {"nih"}, <<"valid">>>>,
     <<"su_nih_union", {}, <<"valid">>>>,
     <<"competition", {"stanford", "pulm"}, <<"test">>>>}

RawCommon ==
    (K("batch_size") :> 16) @@ (K("gpu_ids") :> <<"0">>)
    @@ Flat("logger_args", (K("name") :> <<"debugging">>) @@ (K("save_dir") :> <<"ckpts", "/">>))
    @@ Flat("transform_args", (K("crop") :> 320))

\* The Namespace TestArgParser's parser returns.
TestArgv ==
    {Namespace(
        RawCommon
        @@ (IF t2d THEN (K("test_2d") :> TRUE) ELSE EmptyDict)
        @@ (K("config_path") :> cfg) @@ (K("use_multi_model") :> multi)
        @@ Flat("model_args", (K("ckpt_path") :> cp) @@ (K("ckpt_paths") :> cps)
                              @@ (K("pretrained") :> pre) @@ (K("use_csv_probs") :> csv))
        @@ Flat("data_args", (K("task_sequence") :> dc[1]) @@ FlagDict(dc[2])
                             @@ (K("split") :> dc[3]))
        @@ Flat("logger_args", (K("results_dir") :> <<"results", "/">>)
                               @@ (K("write_results") :> wres) @@ (K("save_cams") :> cams)),
        EmptyDict) :
      cp \in {<<>>, PathA}, cps \in {None, Some(<<PathB, PathA>>)}, pre \in BOOLEAN,
      csv \in BOOLEAN, cfg \in {None, Some(<<"ensemble.json">>)}, t2d \in BOOLEAN,
      multi \in BOOLEAN, dc \in TestDataChoices, wres \in BOOLEAN, cams \in BOOLEAN}

\* The Namespace TrainArgParser's parser returns.
TrainArgv ==
    {Namespace(
        RawCommon
        @@ Flat("model_args", (K("ckpt_path") :> <<>>) @@ (K("ckpt_paths") :> None)
                              @@ (K("pretrained") :> TRUE))
        @@ Flat("data_args", (K("task_sequence") :> ts) @@ FlagDict(flags)
                             @@ FracDict([d \in Datasets |-> IF d = "stanford" THEN sufrac
                                                             ELSE FracNone]))
        @@ Flat("logger_args", (K("metric_name") :> mn) @@ (K("maximize_metric") :> mx)
                               @@ (K("iters_per_eval") :> ipe) @@ (K("iters_per_save") :> ips)),
        EmptyDict) :
      ts \in {"su_nih_union", "competition"}, flags \in SUBSET Datasets,
      sufrac \in {FracNone, FracOne}, mn \in MetricNames, mx \in BOOLEAN,
      ipe \in {16, 100}, ips \in {48, 50}}

-----------------------------------------------------------------------------
(* Specifications of the pure functions.                               *)

PcOff == "off"
WrIdle == [pc |-> "off"]
RunIdle == [pc |-> "off"]

RestIdle ==
    /\ pc = PcOff /\ is_training = FALSE /\ args = Namespace(EmptyDict, EmptyDict)
    /\ disk = EmptyDict /\ argv = Namespace(EmptyDict, EmptyDict) /\ err = "none" /\ run = RunIdle

InitTasks == tm = TmIdle /\ nsp = NspIdle /\ wr = WrIdle /\ RestIdle
NextTasks == CallAreTasksMissing
SpecTasks == InitTasks /\ [][NextTasks]_vars

InitNamespace ==
    /\ tm = TmIdle /\ wr = WrIdle /\ RestIdle
    /\ nsp \in {[pc |-> "raw", raw |-> r, err |-> "none",
                 args |-> Namespace(EmptyDict, EmptyDict), flat |-> EmptyDict] : r \in RawArgSets}
NextNamespace == Unflatten \/ Reflatten
SpecNamespace == InitNamespace /\ [][NextNamespace]_vars

\* The run starts with the parser's Namespace: a training run with no
\* checkpoint directory in play, or a test run over one of the disks.
Init ==
    /\ tm = TmIdle /\ nsp = NspIdle /\ wr = WrIdle
    /\ pc = "parsed" /\ err = "none" /\ run = RunStart
    /\ \/ is_training = TRUE /\ argv \in TrainArgv /\ disk = (SidecarOf(PathB) :> SidecarB)
       \/ is_training = FALSE /\ argv \in TestArgv /\ disk \in Disks
    /\ args = argv

Next ==
    \/ ProcessArgs_Merge
    \/ ProcessArgs_Persist
    \/ ProcessArgs_Check
    \/ ProcessArgs_DatasetName
    \/ ProcessArgs_Device
    \/ Test_LoadModel
    \/ Test_Prepare
    \/ Test_Evaluate
    \/ Test_WriteResults
    \/ Test_SaveCams

Spec == Init /\ [][Next]_vars

InitWrite ==
    /\ tm = TmIdle /\ nsp = NspIdle /\ RestIdle
    /\ \E ds \in WrDatasets, split \in WrSplits, ts \in WrTaskSequences, e \in {0, 3} :
         \E m \in MetricsTables(ds, split, ts) :
           wr = [pc |-> "ready", dataset_name |-> ds, split |-> split, metrics |-> m,
                 name |-> <<"debugging">>, ckpt_info |-> [epoch |-> e],
                 evaluate_task_sequence |-> ts,
                 err |-> "none", cols |-> <<>>, row |-> EmptyDict]
NextWrite == CallWriteResults
SpecWrite == InitWrite /\ [][NextWrite]_vars

-----------------------------------------------------------------------------
(* C1 *)

\* The dataset's flag is true or its train fraction equals 1, and its native
\* task sequence does not contain every label of the target.
DatasetLacksLabel(ds) ==
    /\ tm.eval[ds] \/ tm.train_frac[ds] = FracOne
    /\ \E label \in SeqToSet(TASK_SEQUENCES[tm.task_sequence]) :
          label \notin SeqToSet(TASK_SEQUENCES[ds])

\* C1: are_tasks_missing returns True if and only if at least one of the six
\* datasets whose eval flag is true or whose train fraction equals 1 has a
\* native task sequence lacking a label of the target; otherwise False.
C1_AreTasksMissingIff ==
    tm.called => (tm.result <=> \E ds \in Datasets : DatasetLacksLabel(ds))

\* A call decided by TCGA alone, through its train fraction.
C1_Witness ==
    /\ tm.called /\ tm.result
    /\ DatasetLacksLabel("tcga") /\ ~tm.eval["tcga"]
    /\ \A ds \in Datasets \ {"tcga"} : ~DatasetLacksLabel(ds)

-----------------------------------------------------------------------------
(* C6 *)

Dots(key) == Cardinality({i \in 1..Len(key) : key[i] = Dot})

AtMostOneSeparator(raw) == \A k \in DOMAIN raw : Dots(k) <= 1

\* A key without separator that is also the group of a key with one.
GroupNameTaken(raw) ==
    \E k \in DOMAIN raw : Dots(k) = 1 /\ Split(k)[1] \in DOMAIN raw

\* After fix_nested_namespaces: every key with one separator is under its
\* group with its value, the flat key is gone, the other keys are untouched.
Unflattened ==
    /\ nsp.err = "none"
    /\ \A k \in DOMAIN nsp.raw :
         IF Dots(k) = 1
         THEN /\ k \notin DOMAIN nsp.args.d
              /\ Split(k)[1] \in DOMAIN nsp.args.ns
              /\ Split(k)[2] \in DOMAIN nsp.args.ns[Split(k)[1]]
              /\ nsp.args.ns[Split(k)[1]][Split(k)[2]] = nsp.raw[k]
         ELSE k \in DOMAIN nsp.args.d /\ nsp.args.d[k] = nsp.raw[k]
    /\ DOMAIN nsp.args.d \subseteq DOMAIN nsp.raw

RoundTrip ==
    /\ nsp.pc \in {"nested", "flat"} /\ Unflattened
    /\ nsp.pc = "flat" => nsp.flat = nsp.raw

\* C6 as stated: for every raw argument set whose keys contain at most one
\* separator, un-flattening then re-flattening gives back the original pairs.
C6_RoundTripAnyKeys ==
    (nsp.pc \notin {"off", "raw"} /\ AtMostOneSeparator(nsp.raw)) => RoundTrip

\* C6 as amended: the same, for the raw argument sets in which no key without
\* separator is the group name of a key with a separator.
C6_RoundTrip ==
    (nsp.pc \notin {"off", "raw"} /\ AtMostOneSeparator(nsp.raw) /\ ~GroupNameTaken(nsp.raw))
        => RoundTrip

\* Two keys of different groups and a key without separator, re-flattened.
C6_Witness ==
    /\ nsp.pc = "flat" /\ nsp.flat = nsp.raw
    /\ AtMostOneSeparator(nsp.raw) /\ ~GroupNameTaken(nsp.raw)
    /\ \E k \in DOMAIN nsp.raw : Dots(k) = 1
    /\ \E k \in DOMAIN nsp.raw : Dots(k) = 0

-----------------------------------------------------------------------------
(* C8 *)

WrTasks == TASK_SEQUENCES[wr.evaluate_task_sequence]

\* The column of metric number i and task number j.
ColOf(i, j) == <<WrTasks[j], EVAL_METRICS[i]>>

\* C8: the row has one column task+metric for every metric of the fixed list
\* and every task, metric-major and task-minor in declared order after the
\* five leading columns; each holds the metrics value of its key verbatim
\* when the key is present and NaN when it is absent.
C8_RowColumns ==
    wr.pc = "written" =>
      /\ Len(wr.cols) = 5 + 6 * Len(WrTasks)
      /\ \A i \in 1..6, j \in 1..Len(WrTasks) :
           /\ wr.cols[5 + (i - 1) * Len(WrTasks) + j] = ColOf(i, j)
           /\ ColOf(i, j) \in DOMAIN wr.row
           /\ LET key == wr.dataset_name \o <<"-">> \o wr.split \o <<"_">> \o ColOf(i, j) IN
                IF key \in DOMAIN wr.metrics
                THEN wr.row[ColOf(i, j)] = wr.metrics[key]
                ELSE wr.row[ColOf(i, j)] = NAN /\ wr.row[ColOf(i, j)] # 0

\* A written row with a metric present with value zero, one present with
\* another value, and the others absent.
C8_Witness ==
    /\ wr.pc = "written" /\ Len(WrTasks) = 2
    /\ \E c \in SeqToSet(SubSeq(wr.cols, 6, Len(wr.cols))) : wr.row[c] = 0
    /\ \E c \in SeqToSet(SubSeq(wr.cols, 6, Len(wr.cols))) : wr.row[c] = 7
    /\ \E c \in SeqToSet(SubSeq(wr.cols, 6, Len(wr.cols))) : wr.row[c] = NAN

-----------------------------------------------------------------------------
(* C9 *)

\* C9: write_results never aborts because a metric is absent: for any
\* metrics table the write completes and the row has the columns
\* "<split>_loss" and "weighted_loss".
C9_WriteNeverAborts ==
    wr.pc \in {"written", "failed"} =>
      /\ wr.pc = "written"
      /\ wr.split \o <<"_", "loss">> \in DOMAIN wr.row
      /\ <<"weighted_loss">> \in DOMAIN wr.row

-----------------------------------------------------------------------------
(* Observations of the run used by the claims below.                       *)

CliModelArg(name) == argv.d[FlatKey("model_args", name)]

\* resolve has returned and test() runs (or has ended)
AfterResolve == {"resolved", "loaded", "ready", "evaluated", "scored", "done"}
AfterLoad == {"loaded", "ready", "evaluated", "scored", "done"}

FailedAt(step) == pc = "failed" /\ run.failed_at = step

\* The datasets whose evaluation flag is set in data_args.
FlagsSet == {d \in Datasets : args.ns[DA][EvalFlag[d]]}

MustSpecifyCkpt == "ValueError: Must specify --ckpt_path in test mode."
MustSelectDataset == "Exception: need to select a dataset to evaluate on"
BadDirection == "AssertionError: metric direction"

-----------------------------------------------------------------------------
(* C2 *)

CkptPathSupplied == ~is_training /\ CliModelArg("ckpt_path") # <<>>

\* The sidecar next to the checkpoint path of the command line.
SidecarRead == disk[SidecarOf(CliModelArg("ckpt_path"))]

\* Every field of the sidecar's groups, but those of model_args named in
\* `except`, holds the sidecar's value in args.
SidecarWins(except) ==
    \A g \in {MA, TA, DA} : \A f \in DOMAIN SidecarRead[g] :
        (g = MA /\ f \in except) \/ (f \in DOMAIN args.ns[g] /\ args.ns[g][f] = SidecarRead[g][f])

\* C2 as stated: after resolve in evaluation mode with a checkpoint path,
\* every sidecar field other than model_args.ckpt_path holds the sidecar's
\* value and model_args.ckpt_path holds the command line's path.
C2_SidecarWinsButCkptPath ==
    (pc = "resolved" /\ CkptPathSupplied) =>
        /\ SidecarWins({K("ckpt_path")})
        /\ args.ns[MA][K("ckpt_path")] = CliModelArg("ckpt_path")

\* C2 as amended: every sidecar field other than model_args.ckpt_path and
\* model_args.ckpt_paths holds the sidecar's value; model_args.ckpt_path
\* holds the command line's path and model_args.ckpt_paths is the empty list.
C2_SidecarWins ==
    (pc = "resolved" /\ CkptPathSupplied) =>
        /\ SidecarWins({K("ckpt_path"), K("ckpt_paths")})
        /\ args.ns[MA][K("ckpt_path")] = CliModelArg("ckpt_path")
        /\ args.ns[MA][K("ckpt_paths")] = Some(<<>>)

\* pretrained=True on the command line, False in the sidecar and in args;
\* the stored checkpoint path differs from the supplied one.
C2_Witness ==
    /\ pc = "resolved" /\ CkptPathSupplied
    /\ CliModelArg("pretrained") = TRUE
    /\ K("pretrained") \in DOMAIN SidecarRead[MA] /\ SidecarRead[MA][K("pretrained")] = FALSE
    /\ args.ns[MA][K("pretrained")] = FALSE
    /\ SidecarRead[MA][K("ckpt_path")] # args.ns[MA][K("ckpt_path")]
    /\ argv.d[FlatKey("transform_args", "crop")] # args.ns[TA][K("crop")]

-----------------------------------------------------------------------------
(* C3 *)

\* One of the four was supplied on the command line.
CheckpointSupplied ==
    \/ CliModelArg("ckpt_path") # <<>>
    \/ ListTruthy(CliModelArg("ckpt_paths"))
    \/ (K("test_2d") \in DOMAIN argv.d /\ argv.d[K("test_2d")])
    \/ ~argv.d[K("config_path")].none

\* C3: in evaluation mode, with none of the four supplied resolve fails with
\* the "must specify a checkpoint" error and no other; with one of them
\* supplied it does not fail for lack of a checkpoint.
C3_CheckpointRequired ==
    ~is_training =>
        /\ ~CheckpointSupplied =>
              /\ pc \notin {"checked", "named"} \cup AfterResolve
              /\ pc = "failed" => err = MustSpecifyCkpt
        /\ CheckpointSupplied => err \notin {MustSpecifyCkpt, "UnboundLocalError"}

-----------------------------------------------------------------------------
(* C4 *)

DatasetStepPassed == pc \in {"named"} \cup AfterResolve \/ (pc = "failed" /\ run.failed_at \in AfterResolve)

\* C4 as stated, for the runs that reach the checks: with no flag set in the
\* merged configuration resolve fails with the "must select a dataset" error.
C4_NoFlagThatError ==
    (pc = "failed" /\ run.failed_at \in {"persisted", "checked"} /\ FlagsSet = {})
        => err = MustSelectDataset

\* C4 as amended: with no flag set resolve never returns and no loader is
\* invoked, and the error is "must select a dataset" whenever the dataset
\* step is reached; when resolve passes that step, dataset_name is the name
\* of a dataset whose flag is true.
C4_DatasetName ==
    /\ (pc # "parsed" /\ FlagsSet = {}) =>
          /\ pc \in {"merged", "persisted", "checked", "failed"}
          /\ run.loaders = {} /\ run.model = "none"
          /\ FailedAt("checked") => err = MustSelectDataset
    /\ FailedAt("checked") => (FlagsSet = {} /\ err = MustSelectDataset)
    /\ DatasetStepPassed =>
          /\ K("dataset_name") \in DOMAIN args.ns[DA]
          /\ \E d \in FlagsSet : args.ns[DA][K("dataset_name")] = <<d>>

\* An evaluation run whose command line selects a dataset and whose sidecar
\* selects none: the must-select error.
C4_Witness ==
    /\ ~is_training /\ FailedAt("checked") /\ err = MustSelectDataset
    /\ \E d \in Datasets : argv.d[FlatKey("data_args", EvalFlag[d][1])]

-----------------------------------------------------------------------------
(* C5 *)

MetricName == args.ns[LA][K("metric_name")]
Maximize == args.ns[LA][K("maximize_metric")]
HasLoss == Contains(MetricName, W_loss)
HasAurocOrAccuracy == Contains(MetricName, W_AUROC) \/ Contains(MetricName, W_accuracy)

\* The training run reached the direction check: the checks are over and
\* none of the earlier ones failed.
DirectionChecked ==
    /\ is_training /\ pc \notin {"parsed", "merged", "persisted"}
    /\ err \notin {"ValueError: iters_per_eval must be divisible by batch_size.",
                   "ValueError: iters_per_save must be divisible by iters_per_eval.",
                   "AssertionError: metric_name"}

\* C5 as stated: the check fails when the name contains "loss" and
\* maximize_metric is true, or contains "AUROC" or "accuracy" and
\* maximize_metric is false; it passes when the category agrees.
C5_DirectionAnyName ==
    DirectionChecked =>
        /\ ((HasLoss /\ Maximize) \/ (HasAurocOrAccuracy /\ ~Maximize)) => err = BadDirection
        /\ ((HasLoss /\ ~Maximize) \/ (HasAurocOrAccuracy /\ Maximize)) => err # BadDirection

\* C5 as amended: the check fails when the name contains "loss" and neither
\* "AUROC" nor "accuracy" and maximize_metric is true, or contains "AUROC"
\* or "accuracy" and not "loss" and maximize_metric is false; it passes
\* whenever a category the name contains agrees with the direction.
C5_Direction ==
    DirectionChecked =>
        /\ ((HasLoss /\ ~HasAurocOrAccuracy /\ Maximize)
             \/ (HasAurocOrAccuracy /\ ~HasLoss /\ ~Maximize)) => err = BadDirection
        /\ ((HasLoss /\ ~Maximize) \/ (HasAurocOrAccuracy /\ Maximize)) => err # BadDirection

\* "nih-valid_loss" with maximize_metric=True fails the direction check.
C5_Witness ==
    /\ DirectionChecked /\ err = BadDirection
    /\ MetricName \in NIH_METRICS /\ Maximize

-----------------------------------------------------------------------------
(* C7 *)

\* C7: on each loading path a load that completes yields a model handle and
\* a checkpoint info; a load fails only when it cannot produce both (a
\* checkpoint, a CSV or a configuration could not be loaded), and nothing
\* partial goes on to evaluation.
C7_LoadYieldsBoth ==
    /\ pc \in AfterLoad => (run.model # "none" /\ ~run.ckpt_info.none)
    /\ FailedAt("resolved") => ~run.loads_ok

-----------------------------------------------------------------------------
(* C10 *)

UseMulti == args.d[K("use_multi_model")]
UseCsv == args.ns[MA][K("use_csv_probs")]
HasConfig == ~args.d[K("config_path")].none
HasCkptList == ListTruthy(args.ns[MA][K("ckpt_paths")])

\* C10: exactly one loader is invoked, the first in the order multi-view,
\* CSV-replay, external ensemble, checkpoint list, single checkpoint whose
\* condition holds; CSV-replay and external ensemble report epoch 0.
C10_FirstMatch ==
    run.loaders # {} =>
        /\ UseMulti => run.loaders = {"load_multi_model"}
        /\ (~UseMulti /\ UseCsv) => run.loaders = {"CSVReaderModel"}
        /\ (~UseMulti /\ ~UseCsv /\ HasConfig) => run.loaders = {"EnsembleModel"}
        /\ (~UseMulti /\ ~UseCsv /\ ~HasConfig /\ HasCkptList) => run.loaders = {"load_ensemble"}
        /\ (~UseMulti /\ ~UseCsv /\ ~HasConfig /\ ~HasCkptList) => run.loaders = {"load_model"}
        /\ (pc \in AfterLoad /\ run.loaders \subseteq {"CSVReaderModel", "EnsembleModel"})
              => run.ckpt_info.v.epoch = 0

\* CSV-replay chosen although a configuration path and a checkpoint list are there.
C10_Witness ==
    /\ pc = "loaded" /\ run.loaders = {"CSVReaderModel"} /\ run.ckpt_info.v.epoch = 0
    /\ HasConfig /\ HasCkptList

-----------------------------------------------------------------------------
(* C11 *)

SaveCams == args.ns[LA][K("save_cams")]

\* The Evaluator step of test() is over.
EvaluationOver == pc \in {"evaluated", "scored", "done"} \/ FailedAt("evaluated") \/ FailedAt("scored")

\* The last statement of test() has been executed.
SaveCamsStepOver == pc = "done" \/ FailedAt("scored")

\* C11: in an evaluation run the Evaluator is invoked if and only if neither
\* a configuration path nor a non-empty checkpoint list is in the
\* configuration; in the skipped case there are no metrics and no results
\* row; the visual-explanation routine is triggered exactly when save_cams
\* is set, whether or not metrics were computed.
C11_EvaluatorIffScored ==
    ~is_training =>
        /\ EvaluationOver => (~run.metrics.none <=> (~HasConfig /\ ~HasCkptList))
        /\ (EvaluationOver /\ (HasConfig \/ HasCkptList)) => (run.metrics.none /\ ~run.wrote_results)
        /\ run.wrote_results => ~run.metrics.none
        /\ SaveCamsStepOver => (run.cams <=> SaveCams)

-----------------------------------------------------------------------------
(* C12 *)

\* Several checkpoint paths were supplied for ensembling in evaluation mode.
CkptListSupplied == ~is_training /\ ListTruthy(CliModelArg("ckpt_paths"))

FirstOfList == CliModelArg("ckpt_paths").v[1]

\* C12: in evaluation mode with a non-empty checkpoint list supplied, with or
\* without a single checkpoint path, the only sidecar read is the one in the
\* directory of the first path of the list; after resolve model_args.ckpt_paths
\* equals the supplied list, and the loader selected is the ensemble loader
\* unless one of the conditions tested before it holds.
C12_ListRetained ==
    CkptListSupplied =>
        /\ run.read \subseteq {SidecarOf(FirstOfList)}
        /\ pc \in AfterResolve =>
              /\ run.read = {SidecarOf(FirstOfList)}
              /\ args.ns[MA][K("ckpt_paths")] = CliModelArg("ckpt_paths")
        /\ (run.loaders # {} /\ ~UseMulti /\ ~UseCsv /\ ~HasConfig) => run.loaders = {"load_ensemble"}

-----------------------------------------------------------------------------
(* C13 *)

\* The conditions under which the checkpoint-derived merge is stated to run:
\* evaluation mode, no configuration path, no CSV replay, a checkpoint path known.
MergeApplies ==
    /\ ~is_training
    /\ argv.d[K("config_path")].none
    /\ ~CliModelArg("use_csv_probs")
    /\ (CliModelArg("ckpt_path") # <<>> \/ ListTruthy(CliModelArg("ckpt_paths")))

\* The three groups hold what the command line held.
GroupsAsSupplied == \A g \in {MA, TA, DA} : args.ns[g] = FixNestedNamespaces(argv).args.ns[g]

\* The merge step of resolve is over, with or without an exception.
MergeStepOver == pc = "merged" \/ FailedAt("parsed")

\* C13: a sidecar is read only in evaluation mode with neither a
\* configuration path nor CSV replay and with a checkpoint path known; in
\* every other case resolve reads no sidecar and the merge step leaves the
\* model, transform and data groups as the caller supplied them.
C13_MergeOnlyWhen ==
    /\ run.read # {} => MergeApplies
    /\ (MergeStepOver /\ ~MergeApplies) => (run.read = {} /\ GroupsAsSupplied)

-----------------------------------------------------------------------------
(* C14 *)

\* resolve has reached the invariant checks: they are next, or they have
\* passed or failed.
ChecksReached == pc \in {"persisted", "checked", "named"} \cup AfterResolve \/ (pc = "failed" /\ run.failed_at # "parsed")

\* What merging produced from the command line and the sidecars.
Merged == MergeArgs(argv, is_training, disk).args

\* logger_args names the new run directory under the caller's save_dir.
CliLoggerArg(name) == argv.d[FlatKey("logger_args", name)]

RunDirNamed ==
    /\ \E date_string \in DateStrings :
          args.ns[LA][K("dir_name")] = CliLoggerArg("name") \o <<"_">> \o date_string
    /\ args.ns[LA][K("save_dir")] = PathJoin(CliLoggerArg("save_dir"), args.ns[LA][K("dir_name")])

AuditPath == PathJoin(args.ns[LA][K("save_dir")], K("args.json"))

\* C14 as stated: whenever resolve has reached the checks, args.json is in
\* the newly named run directory and holds the configuration exactly as
\* merging produced it; a failing check leaves it in place.
C14_AuditAsMerged ==
    ChecksReached =>
        /\ RunDirNamed
        /\ AuditPath \in DOMAIN disk
        /\ disk[AuditPath] = NamespaceToDict(Merged)

\* C14 as amended: whenever resolve has reached the checks, args.json is in
\* the newly named run directory and holds the configuration as merging
\* produced it with logger_args.dir_name added: logger_args.save_dir is still
\* the caller's, and is_training, start_epoch, dataset_name, device and
\* results of later steps are absent; a failing check leaves it in place.
C14_AuditBeforeChecks ==
    ChecksReached =>
        /\ RunDirNamed
        /\ AuditPath \in DOMAIN disk
        /\ disk[AuditPath] = NamespaceToDict([Merged EXCEPT !.ns[LA] =
                                  DictSet(@, K("dir_name"), args.ns[LA][K("dir_name")])])
        /\ disk[AuditPath].ns[LA][K("save_dir")] = CliLoggerArg("save_dir")
        /\ DOMAIN disk[AuditPath].d \cap {K("is_training"), K("start_epoch"), K("device")} = {}
        /\ K("dataset_name") \notin DOMAIN disk[AuditPath].ns[DA]

\* A training run whose direction check failed: args.json of the run
\* directory is there, with dir_name and without is_training.
C14_Witness ==
    /\ FailedAt("persisted") /\ err = BadDirection
    /\ AuditPath \in DOMAIN disk
    /\ K("dir_name") \in DOMAIN disk[AuditPath].ns[LA]
    /\ K("is_training") \in DOMAIN args.d /\ K("is_training") \notin DOMAIN disk[AuditPath].d

-----------------------------------------------------------------------------
(* C15 *)

\* The single-checkpoint path is the one test() takes.
SinglePath == ~UseMulti /\ ~UseCsv /\ ~HasConfig /\ ~HasCkptList

\* C15 as stated: after resolve has returned no step of the evaluation run
\* changes any field of the resolved configuration, on every loading path.
C15_NoMutationAfterResolve == [][(pc \in AfterResolve) => (args' = args)]_vars

\* C15 as amended: after resolve has returned the only change a step of the
\* run makes to the configuration is model_args.pretrained = False, made by
\* the loading step on the single-checkpoint path; on the other four paths
\* and in every later step the configuration stays as resolve returned it.
C15_OnlyPretrainedReset == [][(pc \in AfterResolve) => (IF pc = "resolved" /\ SinglePath THEN args' = [args EXCEPT !.ns[MA] = DictSet(@, K("pretrained"), FALSE)] ELSE args' = args)]_vars

\* A single checkpoint whose sidecar stored pretrained=True was loaded:
\* model_args.pretrained is False now.
C15_Witness ==
    /\ pc = "loaded" /\ run.loaders = {"load_model"}
    /\ CkptPathSupplied
    /\ K("pretrained") \in DOMAIN SidecarRead[MA] /\ SidecarRead[MA][K("pretrained")] = TRUE
    /\ args.ns[MA][K("pretrained")] = FALSE

-----------------------------------------------------------------------------
(* C16 *)

\* C16: in every resolved configuration has_tasks_missing equals
\* are_tasks_missing applied to the task sequence and the flags the resolved
\* data group holds; in evaluation mode these are the values after the
\* sidecar's data_args were overlaid, not the command line's.
C16_AgreesWithResolvedData ==
    pc \in AfterResolve => args.d[K("has_tasks_missing")] = HasTasksMissing(args, is_training)

====
